---------------------------- MODULE Spec2Model ----------------------------
(***************************************************************************)
(* Model of the rula crate: the dense row-major matrix of                  *)
(* src/src/full_matrix.rs with its row and column iterators, and the       *)
(* vector primitives of src/src/vector.rs.                                 *)
(*                                                                         *)
(* Two specifications share the module:                                    *)
(*   Spec     a client owning one FullMatrix, calling get, iter_over_row,  *)
(*            iter_over_column and next() on the iterators;                *)
(*   SpecVec  a client owning two vectors u and v of one scalar type,      *)
(*            calling the functions of vector.rs on them.                  *)
(*                                                                         *)
(* A scalar is a record [k, n]: k = "fin" carries the number n; the kinds  *)
(* "inf", "ninf" and "nan" are the IEEE-754 specials of f64 and carry      *)
(* n = 0.  The two zeros of f64 compare equal and are one value Fin(0);    *)
(* equality of scalars is equality of values, so NaN is equal to itself.   *)
(* Integer arithmetic is i8 arithmetic with overflow checks off (it wraps  *)
(* modulo 2^Bits).  A reference &T into the matrix is modelled by the      *)
(* 0-based offset of the element in the backing Vec.                       *)
(***************************************************************************)
EXTENDS Integers, Sequences, FiniteSets

VARIABLES m, ctor, getRes, rowIt, colIt, ty, u, v, nmut, last

mvars == <<m, ctor, getRes, rowIt, colIt>>
vvars == <<ty, u, v, nmut, last>>
vars == <<m, ctor, getRes, rowIt, colIt, ty, u, v, nmut, last>>

-----------------------------------------------------------------------------
(* Bounds of the model. *)

\* Largest dimension and largest index the matrix client uses.
MaxDim == 2
\* Longest input vector.
MaxLen == 2
\* Number of in-place operations (scale, zero, mlt_add) in one run.
MaxMut == 1

-----------------------------------------------------------------------------
(* Scalars. *)

Fin(n) == [k |-> "fin", n |-> n]
Inf == [k |-> "inf", n |-> 0]
NInf == [k |-> "ninf", n |-> 0]
NaN == [k |-> "nan", n |-> 0]

\* Width of the integer scalar type (i8).
Bits == 8

\* Two's-complement wrap of an integer result into Bits bits.
Wrap(n) ==
    LET r == n % (2 ^ Bits)
    IN  IF r >= 2 ^ (Bits - 1) THEN r - 2 ^ Bits ELSE r

\* Zero::zero(): 0 for the integer types, 0. for the floating-point types.
T_zero(t) == Fin(0)

Sign(x) ==
    CASE x.k = "inf" -> 1
      [] x.k = "ninf" -> -1
      [] x.k = "fin" -> IF x.n > 0 THEN 1 ELSE IF x.n < 0 THEN -1 ELSE 0
      [] OTHER -> 0

\* f64 addition on integer-valued floats and the specials.
FAdd(x, y) ==
    CASE x.k = "nan" \/ y.k = "nan" -> NaN
      [] x.k = "fin" /\ y.k = "fin" -> Fin(x.n + y.n)
      [] x.k = "fin" -> y
      [] y.k = "fin" -> x
      [] x.k = y.k -> x
      [] OTHER -> NaN

\* f64 multiplication on integer-valued floats and the specials.
FMul(x, y) ==
    CASE x.k = "nan" \/ y.k = "nan" -> NaN
      [] x.k = "fin" /\ y.k = "fin" -> Fin(x.n * y.n)
      [] Sign(x) * Sign(y) = 0 -> NaN
      [] Sign(x) * Sign(y) > 0 -> Inf
      [] OTHER -> NInf

\* Add<Output = T> of the scalar type t.
Add(t, x, y) == IF t = "i8" THEN Fin(Wrap(x.n + y.n)) ELSE FAdd(x, y)

\* Mul<Output = T> (and MulAssign) of the scalar type t.
Mul(t, x, y) == IF t = "i8" THEN Fin(Wrap(x.n * y.n)) ELSE FMul(x, y)

\* Into<U>: the reflexive conversion of a scalar into its own type.
Into(t, x) == x

-----------------------------------------------------------------------------
(* Dense matrix (full_matrix.rs). *)

Min(a, b) == IF a < b THEN a ELSE b

\* FullMatrix::zero: nrow * ncol copies of T::zero().
FullMatrix_zeroSwapped(nrow, ncol) ==
    [data |-> [x \in 1..(nrow * ncol) |-> T_zero("f64")],
     nrow |-> ncol, ncol |-> nrow]

FullMatrix_zeroShort(nrow, ncol) ==
    [data |-> [x \in 1..(nrow * nrow) |-> T_zero("f64")],
     nrow |-> nrow, ncol |-> ncol]

FullMatrix_zero(nrow, ncol) ==
    [data |-> [x \in 1..(nrow * ncol) |-> T_zero("f64")],
     nrow |-> nrow, ncol |-> ncol]

\* The result of an indexing expression: a reference, or a panic.
Some(off) == [ok |-> TRUE, ref |-> off]
Panic == [ok |-> FALSE, ref |-> 0]

\* FullMatrix::get: &self.data[i * self.ncol + j]; the only check is the
\* bounds check of the Vec on the flat offset.
FullMatrix_get(mat, i, j) ==
    IF i * mat.ncol + j < Len(mat.data)
    THEN Some(i * mat.ncol + j)
    ELSE Panic

\* Value behind a reference.
Deref(mat, off) == mat.data[off + 1]

NoIter == [st |-> "none", i |-> 0, j |-> 0, out |-> <<>>]

\* FullMatrix::iter_over_row
iter_over_row(i) == [st |-> "iter", i |-> i, j |-> 0, out |-> <<>>]

\* FullMatrix::iter_over_column
iter_over_column(j) == [st |-> "iter", i |-> 0, j |-> j, out |-> <<>>]

\* RowIter::next.  `out` collects the references returned as Some(..),
\* st = "done" records that the last call returned None.
RowIter_nextOffByOne(mat, it) ==
    IF it.j <= mat.ncol
    THEN LET r == FullMatrix_get(mat, it.i, it.j)
         IN  IF r.ok
             THEN [it EXCEPT !.st = "iter", !.j = it.j + 1,
                             !.out = Append(it.out, r.ref)]
             ELSE [it EXCEPT !.st = "panic"]
    ELSE [it EXCEPT !.st = "done"]

RowIter_next(mat, it) ==
    IF it.j < mat.ncol
    THEN LET r == FullMatrix_get(mat, it.i, it.j)
         IN  IF r.ok
             THEN [it EXCEPT !.st = "iter", !.j = it.j + 1,
                             !.out = Append(it.out, r.ref)]
             ELSE [it EXCEPT !.st = "panic"]
    ELSE [it EXCEPT !.st = "done"]

\* ColIter::next
ColIter_nextNoStride(mat, it) ==
    IF it.i < mat.nrow
    THEN LET r == FullMatrix_get(mat, it.j, it.i)
         IN  IF r.ok
             THEN [it EXCEPT !.st = "iter", !.i = it.i + 1,
                             !.out = Append(it.out, r.ref)]
             ELSE [it EXCEPT !.st = "panic"]
    ELSE [it EXCEPT !.st = "done"]

ColIter_next(mat, it) ==
    IF it.i < mat.nrow
    THEN LET r == FullMatrix_get(mat, it.i, it.j)
         IN  IF r.ok
             THEN [it EXCEPT !.st = "iter", !.i = it.i + 1,
                             !.out = Append(it.out, r.ref)]
             ELSE [it EXCEPT !.st = "panic"]
    ELSE [it EXCEPT !.st = "done"]

NoGet == [st |-> "none", i |-> 0, j |-> 0, ref |-> 0]

NoLast == [op |-> "none", a |-> Fin(0), b |-> Fin(0), res |-> Fin(0),
           w |-> <<>>, oldu |-> <<>>, oldv |-> <<>>, prev |-> "none"]

\* The client constructs the matrix with FullMatrix::zero(nrow, ncol).
Init ==
    /\ \E nrow \in 0..MaxDim, ncol \in 0..MaxDim :
          /\ m = FullMatrix_zero(nrow, ncol)
          /\ ctor = [nrow |-> nrow, ncol |-> ncol]
    /\ getRes = NoGet
    /\ rowIt = NoIter
    /\ colIt = NoIter
    /\ ty = "i8" /\ u = <<>> /\ v = <<>> /\ nmut = 0 /\ last = NoLast

\* m.get(i, j)
Get ==
    \E i \in 0..MaxDim, j \in 0..MaxDim :
       LET r == FullMatrix_get(m, i, j)
       IN  /\ getRes' = [st |-> IF r.ok THEN "ok" ELSE "panic",
                         i |-> i, j |-> j, ref |-> r.ref]
           /\ UNCHANGED <<m, ctor, rowIt, colIt>>
           /\ UNCHANGED vvars

\* m.iter_over_row(i)
IterOverRow ==
    \E i \in 0..MaxDim :
       /\ rowIt' = iter_over_row(i)
       /\ UNCHANGED <<m, ctor, getRes, colIt>>
       /\ UNCHANGED vvars

\* next() on the row iterator
RowNext ==
    /\ rowIt.st \in {"iter", "done"}
    /\ rowIt' = RowIter_next(m, rowIt)
    /\ UNCHANGED <<m, ctor, getRes, colIt>>
    /\ UNCHANGED vvars

\* m.iter_over_column(j)
IterOverColumn ==
    \E j \in 0..MaxDim :
       /\ colIt' = iter_over_column(j)
       /\ UNCHANGED <<m, ctor, getRes, rowIt>>
       /\ UNCHANGED vvars

\* next() on the column iterator
ColNext ==
    /\ colIt.st \in {"iter", "done"}
    /\ colIt' = ColIter_next(m, colIt)
    /\ UNCHANGED <<m, ctor, getRes, rowIt>>
    /\ UNCHANGED vvars

Next == Get \/ IterOverRow \/ RowNext \/ IterOverColumn \/ ColNext

Spec == Init /\ [][Next]_vars

-----------------------------------------------------------------------------
(* Properties of the dense matrix, checked under Spec. *)

Valid(i, j) == i < m.nrow /\ j < m.ncol

\* C1: m.get(i, j) fails with an out-of-bounds failure whenever
\* i >= m.nrow or j >= m.ncol; it never returns an element for such a pair.
C1_GetOutOfBoundsFails ==
    (getRes.st # "none" /\ ~Valid(getRes.i, getRes.j)) => getRes.st = "panic"

\* C2: in every reachable state the backing sequence has nrow * ncol
\* elements, and nrow and ncol are the values given to zero(nrow, ncol).
C2_LengthAndDimensions ==
    /\ Len(m.data) = m.nrow * m.ncol
    /\ m.nrow = ctor.nrow
    /\ m.ncol = ctor.ncol

C2_Witness ==
    /\ m.nrow = 1 /\ m.ncol = 2
    /\ getRes.st = "ok"
    /\ rowIt.st = "done" /\ Len(rowIt.out) = 2
    /\ colIt.st = "done" /\ Len(colIt.out) = 1

\* C3: for a row index i < nrow, the calls of next() on iter_over_row(i)
\* return, in order, the elements get(i, 0), get(i, 1), ... (offsets
\* i*ncol + k), never fail, never return more than ncol elements, and None
\* is returned exactly when ncol elements have been returned.
C3_RowIteration ==
    (rowIt.st # "none" /\ rowIt.i < m.nrow) =>
        /\ rowIt.st # "panic"
        /\ Len(rowIt.out) <= m.ncol
        /\ rowIt.st = "done" => Len(rowIt.out) = m.ncol
        /\ \A k \in 1..Len(rowIt.out) :
              /\ rowIt.out[k] = rowIt.i * m.ncol + (k - 1)
              /\ FullMatrix_get(m, rowIt.i, k - 1) = Some(rowIt.out[k])

C3_Witness ==
    /\ rowIt.st = "done" /\ rowIt.i = 1 /\ m.nrow = 2 /\ m.ncol = 2
    /\ rowIt.out = <<2, 3>>

\* C4: for a column index j < ncol, the calls of next() on
\* iter_over_column(j) return, in order, the elements get(0, j), get(1, j),
\* ... (offsets j, j + ncol, j + 2*ncol, ...), never fail, never return more
\* than nrow elements, and None is returned exactly when nrow elements have
\* been returned.
C4_ColumnIteration ==
    (colIt.st # "none" /\ colIt.j < m.ncol) =>
        /\ colIt.st # "panic"
        /\ Len(colIt.out) <= m.nrow
        /\ colIt.st = "done" => Len(colIt.out) = m.nrow
        /\ \A k \in 1..Len(colIt.out) :
              /\ colIt.out[k] = colIt.j + (k - 1) * m.ncol
              /\ FullMatrix_get(m, k - 1, colIt.j) = Some(colIt.out[k])

C4_Witness ==
    /\ colIt.st = "done" /\ colIt.j = 1 /\ m.nrow = 2 /\ m.ncol = 2
    /\ colIt.out = <<1, 3>>

\* C5: the matrix returned by zero(nrow, ncol), zero dimensions included,
\* has get(i, j) equal to the additive identity for every i < nrow, j < ncol.
C5_ZeroMatrix ==
    /\ \A i \in 0..(ctor.nrow - 1), j \in 0..(ctor.ncol - 1) :
          /\ FullMatrix_get(m, i, j).ok
          /\ Deref(m, FullMatrix_get(m, i, j).ref) = Fin(0)
    /\ (getRes.st = "ok" /\ getRes.i < ctor.nrow /\ getRes.j < ctor.ncol) =>
          Deref(m, getRes.ref) = Fin(0)

C5_Witness ==
    /\ ctor.nrow = 2 /\ ctor.ncol = 2
    /\ getRes.st = "ok" /\ getRes.i = 1 /\ getRes.j = 1

-----------------------------------------------------------------------------
(* Vector operations (vector.rs).  A Vec<T> is a sequence of scalars; every
   function takes the scalar type t its arithmetic is instantiated with. *)

\* Iterator::zip of two slices: stops at the end of the shorter one.
Zip(s1, s2) == [k \in 1..Min(Len(s1), Len(s2)) |-> <<s1[k], s2[k]>>]

\* dot: u.iter().zip(v.iter()).fold(U::zero(), |res, (&x, &y)| res + x * y)
\* res[k] is the accumulator of the fold after k pairs.
dot_noAccumulate(t, s1, s2) ==
    LET z == Zip(s1, s2)
        res[k \in 0..Len(z)] ==
            IF k = 0 THEN T_zero(t)
            ELSE Mul(t, z[k][1], z[k][2])
    IN  res[Len(z)]

dot_squaresFirst(t, s1, s2) ==
    LET z == Zip(s1, s2)
        res[k \in 0..Len(z)] ==
            IF k = 0 THEN T_zero(t)
            ELSE Add(t, res[k - 1], Mul(t, z[k][1], z[k][1]))
    IN  res[Len(z)]

dot(t, s1, s2) ==
    LET z == Zip(s1, s2)
        res[k \in 0..Len(z)] ==
            IF k = 0 THEN T_zero(t)
            ELSE Add(t, res[k - 1], Mul(t, z[k][1], z[k][2]))
    IN  res[Len(z)]

\* square_norm: dot(u, u)
square_norm(t, s) == dot(t, s, s)

\* lin_com: u.iter().zip(v.iter()).map(|(&x, &y)| a * x + b * y).collect()
lin_com_sameCoefficient(t, a, s1, b, s2) ==
    LET z == Zip(s1, s2)
    IN  [k \in 1..Len(z) |-> Add(t, Mul(t, a, z[k][1]), Mul(t, a, z[k][2]))]

lin_com(t, a, s1, b, s2) ==
    LET z == Zip(s1, s2)
    IN  [k \in 1..Len(z) |-> Add(t, Mul(t, a, z[k][1]), Mul(t, b, z[k][2]))]

\* mlt_add: for (eu, ev) in u.iter_mut().zip(v.iter())
\*              { *eu += a.into() * (*ev).into(); }
\* The value is u after the loop.
mlt_add_assigns(t, s1, a, s2) ==
    [k \in 1..Len(s1) |->
        IF k <= Len(s2)
        THEN Mul(t, Into(t, a), Into(t, s2[k]))
        ELSE s1[k]]

mlt_add(t, s1, a, s2) ==
    [k \in 1..Len(s1) |->
        IF k <= Len(s2)
        THEN Add(t, s1[k], Mul(t, Into(t, a), Into(t, s2[k])))
        ELSE s1[k]]

\* scale over u.iter_mut(): for e in it { *e *= a; }
\* The value is u after the loop.
scale(t, s, a) == [k \in 1..Len(s) |-> Mul(t, s[k], a)]

\* zero over u.iter_mut(): scale(it, T::zero())
zero(t, s) == scale(t, s, T_zero(t))

\* copy over u.iter(): it.cloned().collect()
copy(s) == [k \in 1..Len(s) |-> s[k]]

\* The scalar types the vector client instantiates the functions with.
Types == {"i8", "f64"}

\* Element values of the input vectors, per scalar type.
Vals(t) == IF t = "i8" THEN {Fin(2), Fin(127)} ELSE {Fin(-1), Inf}

\* Scalar coefficients passed to lin_com, mlt_add and scale.
Coefs(t) == {Fin(-1), Fin(2)}

SeqsUpTo(S, n) == UNION {[1..k -> S] : k \in 0..n}

\* The client owns two vectors of one scalar type.
InitVec ==
    /\ ty \in Types
    /\ u \in SeqsUpTo(Vals(ty), MaxLen)
    /\ v \in SeqsUpTo(Vals(ty), MaxLen)
    /\ nmut = 0
    /\ last = NoLast
    /\ m = FullMatrix_zero(0, 0)
    /\ ctor = [nrow |-> 0, ncol |-> 0]
    /\ getRes = NoGet
    /\ rowIt = NoIter
    /\ colIt = NoIter

\* What a call leaves in `last`: the operation, its scalar arguments, the
\* returned scalar or vector, the vectors before the call and the operation
\* called before it.
Call(op, a, b, res, w) ==
    [op |-> op, a |-> a, b |-> b, res |-> res, w |-> w,
     oldu |-> u, oldv |-> v, prev |-> last.op]

\* dot(&u, &v)
Dot ==
    /\ last' = Call("dot", Fin(0), Fin(0), dot(ty, u, v), <<>>)
    /\ UNCHANGED <<ty, u, v, nmut>>
    /\ UNCHANGED mvars

\* square_norm(&u)
SquareNorm ==
    /\ last' = Call("square_norm", Fin(0), Fin(0), square_norm(ty, u), <<>>)
    /\ UNCHANGED <<ty, u, v, nmut>>
    /\ UNCHANGED mvars

\* lin_com(a, &u, b, &v)
LinCom ==
    \E a \in Coefs(ty), b \in Coefs(ty) :
       /\ last' = Call("lin_com", a, b, Fin(0), lin_com(ty, a, u, b, v))
       /\ UNCHANGED <<ty, u, v, nmut>>
       /\ UNCHANGED mvars

\* copy(u.iter())
Copy ==
    /\ last' = Call("copy", Fin(0), Fin(0), Fin(0), copy(u))
    /\ UNCHANGED <<ty, u, v, nmut>>
    /\ UNCHANGED mvars

\* mlt_add(&mut u, a, &v)
MltAdd ==
    \E a \in Coefs(ty) :
       /\ nmut < MaxMut
       /\ u' = mlt_add(ty, u, a, v)
       /\ nmut' = nmut + 1
       /\ last' = Call("mlt_add", a, Fin(0), Fin(0), <<>>)
       /\ UNCHANGED <<ty, v>>
       /\ UNCHANGED mvars

\* scale(u.iter_mut(), a)
Scale ==
    \E a \in Coefs(ty) :
       /\ nmut < MaxMut
       /\ u' = scale(ty, u, a)
       /\ nmut' = nmut + 1
       /\ last' = Call("scale", a, Fin(0), Fin(0), <<>>)
       /\ UNCHANGED <<ty, v>>
       /\ UNCHANGED mvars

\* zero(u.iter_mut())
Zero ==
    /\ nmut < MaxMut
    /\ u' = zero(ty, u)
    /\ nmut' = nmut + 1
    /\ last' = Call("zero", Fin(0), Fin(0), Fin(0), <<>>)
    /\ UNCHANGED <<ty, v>>
    /\ UNCHANGED mvars

NextVec == Dot \/ SquareNorm \/ LinCom \/ Copy \/ MltAdd \/ Scale \/ Zero

SpecVec == InitVec /\ [][NextVec]_vars

-----------------------------------------------------------------------------
(* Properties of the vector operations, checked under SpecVec. *)

\* The sum of s1[i] * s2[i] over the first n elements, accumulated from the
\* additive identity in index order.
RECURSIVE SumOfProducts(_, _, _, _)
SumOfProducts(t, s1, s2, n) ==
    IF n = 0 THEN Fin(0)
    ELSE Add(t, SumOfProducts(t, s1, s2, n - 1), Mul(t, s1[n], s2[n]))

MinLen == Min(Len(last.oldu), Len(last.oldv))

\* C6: dot(u, v) is the sum of u[i] * v[i] over i < min(len(u), len(v)),
\* accumulated from the additive identity; the elements of the longer vector
\* past that length do not enter the result, a length mismatch raises no
\* error, and u and v are left unchanged.
C6_DotIsTruncatedSum ==
    last.op = "dot" =>
        /\ last.res = SumOfProducts(ty, last.oldu, last.oldv, MinLen)
        /\ u = last.oldu
        /\ v = last.oldv

C6_Witness ==
    /\ last.op = "dot" /\ ty = "i8"
    /\ u = <<Fin(2), Fin(127)>> /\ v = <<Fin(2)>>
    /\ last.res = Fin(4)

C8_LinCom ==
    last.op = "lin_com" =>
        /\ Len(last.w) = MinLen
        /\ \A k \in 1..Len(last.w) :
              last.w[k] = Add(ty, Mul(ty, last.a, last.oldu[k]),
                                  Mul(ty, last.b, last.oldv[k]))
        /\ u = last.oldu
        /\ v = last.oldv

C8_Witness ==
    /\ last.op = "lin_com" /\ ty = "i8"
    /\ last.a = Fin(2) /\ last.b = Fin(-1)
    /\ u = <<Fin(127), Fin(2)>> /\ v = <<Fin(2)>>
    /\ last.w = <<Fin(-4)>>

\* C9: mlt_add(u, a, v) sets u[i] to old u[i] + a * v[i] for every
\* i < min(len(u), len(v)) and leaves the length of u, the other elements of
\* u and the whole of v unchanged.
C9_MltAdd ==
    last.op = "mlt_add" =>
        /\ Len(u) = Len(last.oldu)
        /\ \A k \in 1..Len(u) :
              u[k] = IF k <= MinLen
                     THEN Add(ty, last.oldu[k], Mul(ty, last.a, last.oldv[k]))
                     ELSE last.oldu[k]
        /\ v = last.oldv

C9_Witness ==
    /\ last.op = "mlt_add" /\ ty = "i8" /\ last.a = Fin(2)
    /\ last.oldu = <<Fin(127), Fin(2)>> /\ v = <<Fin(2)>>
    /\ u = <<Fin(-125), Fin(2)>>

\* C10: after zero(u) every element of u equals the scalar zero and the
\* length of u is unchanged, and a following dot(u, u) returns the scalar
\* zero.
C10_ZeroThenDot ==
    /\ last.op = "zero" =>
          /\ Len(u) = Len(last.oldu)
          /\ \A k \in 1..Len(u) : u[k] = T_zero(ty)
    /\ (last.op = "square_norm" /\ last.prev = "zero") =>
          last.res = T_zero(ty)

=============================================================================
